---- MODULE Spec2Model ----
(***************************************************************************)
(* Cost-partitioning pool generator, diversifier, max-of-pool evaluator    *)
(* and ArrayPool of the saturated cost partitioning code                   *)
(* (src/search/cost_saturation, src/search/algorithms/array_pool.h).       *)
(***************************************************************************)
EXTENDS Integers, Sequences, FiniteSets, TLC

(* ----------------------------- bounds ---------------------------------- *)
NumAbs == 2
NumStates == 2
MaxOrders == 2
MaxSizeKb == 3
MaxSamples == 2
MaxSysOrders == 2
MaxEvaluatedOrders == 3

(* ------------------------ program constants ---------------------------- *)
INF == 2147483647
DEAD_END == -1

AbsIds == 0 .. (NumAbs - 1)
StateIds == 0 .. (NumStates - 1)

(* vectors of abstract state ids, one id per abstraction *)
AbstractStateIds == [AbsIds -> StateIds]

(* ------------------ CostPartitioningHeuristic (value) ------------------ *)
NoTable == << >>
GenValues == {0, 1, INF}
UnitTable(s, v) == [t \in StateIds |-> IF t = s THEN v ELSE 0]
NoTables == [a \in AbsIds |-> NoTable]
OneTable(a, tab) == [b \in AbsIds |-> IF b = a THEN tab ELSE NoTable]

(* results the saturation function may hand to the generator *)
CPCatalogue ==
    {NoTables} \cup
    {OneTable(a, UnitTable(s, v)) : a \in AbsIds, s \in StateIds, v \in GenValues \ {0}}

StoredTables(cp) == {a \in DOMAIN cp : cp[a] # NoTable}

RECURSIVE SumOver(_, _, _)
SumOver(cp, ids, S) ==
    IF S = {} THEN 0
    ELSE LET a == CHOOSE x \in S : TRUE
         IN cp[a][ids[a]] + SumOver(cp, ids, S \ {a})

(* CostPartitioningHeuristic::compute_heuristic(abstract_state_ids) *)
ComputeHeuristicCP(cp, ids) ==
    IF \E a \in StoredTables(cp) : cp[a][ids[a]] = INF
    THEN INF
    ELSE SumOver(cp, ids, StoredTables(cp))

(* CostPartitioningHeuristic::estimate_size_in_kb(): one unit per stored value *)
EstimateSizeInKb(cp) == Cardinality(StoredTables(cp)) * NumStates

(* ------------------------------ Diversifier ---------------------------- *)
NoDiversifier == [present |-> FALSE]

(* Diversifier::Diversifier: no value is known for an entry before the first
   candidate, which -1, below every heuristic value, stands for *)
NewDiversifier(samples) ==
    [present |-> TRUE,
     abstract_state_ids_by_sample |-> samples,
     portfolio_h_values |-> [i \in 1 .. Len(samples) |-> -1]]

SampleValue(d, cp, i) == ComputeHeuristicCP(cp, d.abstract_state_ids_by_sample[i])

(* mutant: an equal value counts as an improvement *)
IsDiverseNonStrict(d, cp) ==
    \E i \in 1 .. Len(d.portfolio_h_values) :
        SampleValue(d, cp, i) >= d.portfolio_h_values[i]

(* return value of Diversifier::is_diverse *)
IsDiverse(d, cp) ==
    \E i \in 1 .. Len(d.portfolio_h_values) :
        SampleValue(d, cp, i) > d.portfolio_h_values[i]

(* state of the Diversifier after is_diverse(cp) *)
AfterIsDiverse(d, cp) ==
    [d EXCEPT !.portfolio_h_values =
        [i \in 1 .. Len(d.portfolio_h_values) |->
            IF SampleValue(d, cp, i) > d.portfolio_h_values[i]
            THEN SampleValue(d, cp, i)
            ELSE d.portfolio_h_values[i]]]

(* --------------------------- orders and costs -------------------------- *)
NumOperators == 1
MaxCost == 1

(* cost vectors, one cost per operator *)
CostVectors == [1 .. NumOperators -> 0 .. MaxCost]

(* what a saturation call can leave in the remaining-cost vector it is given *)
LeftOver(given) ==
    {v \in CostVectors : \A o \in 1 .. NumOperators : v[o] <= given[o]}

(* get_default_order(n) *)
GetDefaultOrder(n) == [i \in 1 .. n |-> i - 1]

(* the outcomes of rng->shuffle on a vector *)
Shuffles(ids) ==
    {p \in [1 .. Len(ids) -> {ids[i] : i \in 1 .. Len(ids)}] :
        \A i, j \in 1 .. Len(ids) : p[i] = p[j] => i = j}

(* line 125: unordered_set<int> used(order.begin(), order.end()) *)
Used(order) == {order[i] : i \in 1 .. Len(order)}

(* mutant: the shuffled ids are appended without consulting used *)
CompleteOrderAppendAll(order, abstraction_ids) == order \o abstraction_ids

(* lines 128-132: append the ids that are not in the order yet *)
RECURSIVE CompleteOrder(_, _)
CompleteOrder(order, abstraction_ids) ==
    IF abstraction_ids = << >> THEN order
    ELSE LET abs_id == Head(abstraction_ids) IN
         CompleteOrder(IF abs_id \in Used(order) THEN order
                       ELSE Append(order, abs_id),
                       Tail(abstraction_ids))

(* the partial orders a systematic generator may be handed, ill-formed ones
   with a repeated index included *)
PartialOrders == UNION {[1 .. n -> AbsIds] : n \in 0 .. NumAbs}

NoCall == [site |-> "none", remaining_costs |-> << >>]

(* ----------------------------- state ----------------------------------- *)
VARIABLES
    pc,                              \* position in generate_cost_partitionings
    max_orders, max_size_kb, diversify, num_samples, max_optimization_time,
    num_projection_orders,           \* systematic_generator_orders_hacked.size()
    timer_expired,                   \* timer.is_expired()
    abstract_state_ids_for_init, cp_for_init, init_h,
    diversifier, cp_heuristics, evaluated_orders, size_kb,
    sys_index,                       \* position of the loop over systematic orders
    num_selected_projection_orders,  \* pool size when the systematic loop ended
    num_sampled_states,              \* calls of sampler.sample_state so far
    systematic_generator_orders_hacked, costs,
    remaining_costs,                 \* the local remaining_costs last declared
    cp_call,                         \* the last direct call of cp_function
    order,                           \* the last completed systematic order (line 123)
    expired_on_entry,                \* timer.is_expired() when the systematic loop began
    \* MaxCostPartitioningHeuristic
    unsolvability_heuristic, abstraction_functions, num_best_order,
    query_state,                     \* the state of the last compute_heuristic call
    heuristic_result,                \* what that call returned
    num_queries,                     \* compute_heuristic calls so far
    num_cp_evaluations,              \* pool members evaluated so far
    \* ArrayPool
    data, positions,
    pushed,                          \* the vectors handed to push_back, in order
    slice,                           \* the last ArrayPoolSlice returned
    \* Diversifier::is_diverse
    candidate_h_values,              \* the last candidate's values on the panel
    is_diverse_result                \* what the last is_diverse call returned

vars == <<pc, max_orders, max_size_kb, diversify, num_samples, max_optimization_time,
          num_projection_orders, timer_expired, abstract_state_ids_for_init,
          cp_for_init, init_h, diversifier, cp_heuristics, evaluated_orders, size_kb,
          sys_index, num_selected_projection_orders, num_sampled_states,
          systematic_generator_orders_hacked, costs, remaining_costs, cp_call,
          order, expired_on_entry,
          unsolvability_heuristic, abstraction_functions, num_best_order, query_state,
          heuristic_result, num_queries, num_cp_evaluations,
          data, positions, pushed, slice, candidate_h_values, is_diverse_result>>

genVars == <<max_orders, max_size_kb, diversify, num_samples, max_optimization_time,
             num_projection_orders, timer_expired, abstract_state_ids_for_init,
             cp_for_init, init_h, evaluated_orders, size_kb, sys_index,
             num_selected_projection_orders, num_sampled_states,
             systematic_generator_orders_hacked, costs, remaining_costs, cp_call,
             order, expired_on_entry>>
evalVars == <<unsolvability_heuristic, abstraction_functions, num_best_order,
              query_state, heuristic_result, num_queries, num_cp_evaluations>>
arrayPoolVars == <<data, positions, pushed, slice>>
divVars == <<candidate_h_values, is_diverse_result>>

options == <<max_orders, max_size_kb, diversify, num_samples, max_optimization_time,
             num_projection_orders, abstract_state_ids_for_init,
             systematic_generator_orders_hacked, costs>>

callVars == <<remaining_costs, cp_call, order>>

(* components that take no part in a specification rest in these states *)
GenIdle ==
    /\ max_orders = 0 /\ max_size_kb = 0 /\ diversify = FALSE /\ num_samples = 1
    /\ max_optimization_time = 0 /\ num_projection_orders = 0
    /\ timer_expired = FALSE
    /\ abstract_state_ids_for_init = [a \in AbsIds |-> 0]
    /\ cp_for_init = NoTables /\ init_h = 0
    /\ evaluated_orders = 0 /\ size_kb = 0 /\ sys_index = 0
    /\ num_selected_projection_orders = 0 /\ num_sampled_states = 0
    /\ systematic_generator_orders_hacked = << >>
    /\ costs = [o \in 1 .. NumOperators |-> 0]
    /\ remaining_costs = costs
    /\ cp_call = NoCall
    /\ order = << >>
    /\ expired_on_entry = FALSE

EvalIdle ==
    /\ unsolvability_heuristic = [a \in AbsIds |-> {}]
    /\ abstraction_functions = << >>
    /\ num_best_order = << >>
    /\ query_state = [a \in AbsIds |-> 0]
    /\ heuristic_result = 0
    /\ num_queries = 0
    /\ num_cp_evaluations = 0

ArrayPoolIdle ==
    /\ data = << >> /\ positions = << >> /\ pushed = << >>
    /\ slice = [index |-> -1, first |-> 0, last |-> 0]

DivIdle ==
    /\ candidate_h_values = << >>
    /\ is_diverse_result = FALSE

(* ------------------- generate_cost_partitionings ----------------------- *)
Max2(x, y) == IF x >= y THEN x ELSE y

GenBegin ==
    /\ pc = "start"
    \* the abstract states are numbered so that the initial state has id 0 in
    \* every abstraction; CPCatalogue is closed under renumbering
    /\ abstract_state_ids_for_init = [a \in AbsIds |-> 0]
    /\ cp_for_init = NoTables
    /\ init_h = 0
    /\ diversifier = NoDiversifier
    /\ cp_heuristics = << >>
    /\ evaluated_orders = 0
    /\ size_kb = 0
    /\ sys_index = 0
    /\ num_selected_projection_orders = 0
    /\ num_sampled_states = 0
    /\ remaining_costs = costs
    /\ cp_call = NoCall
    /\ order = << >>
    /\ expired_on_entry = FALSE
    /\ EvalIdle /\ ArrayPoolIdle /\ DivIdle

(* the options of a run; every systematic order is the empty partial order
   and every operator costs 0 *)
GenInit ==
    /\ max_orders \in 0 .. MaxOrders
    /\ max_size_kb \in 0 .. MaxSizeKb
    /\ diversify \in BOOLEAN
    /\ num_samples \in 0 .. MaxSamples
    /\ max_optimization_time \in {0, 1}
    /\ num_projection_orders \in 0 .. MaxSysOrders
    /\ timer_expired \in BOOLEAN
    /\ systematic_generator_orders_hacked = [i \in 1 .. num_projection_orders |-> << >>]
    /\ costs = [o \in 1 .. NumOperators |-> 0]
    /\ GenBegin

(* runs with generous caps, over every collection of partial orders and
   every cost vector *)
GenCallInit ==
    /\ max_orders = MaxOrders
    /\ max_size_kb = MaxSizeKb
    /\ diversify \in BOOLEAN
    /\ num_samples \in 0 .. 1
    /\ max_optimization_time = 0
    /\ timer_expired = FALSE
    /\ systematic_generator_orders_hacked \in
           UNION {[1 .. n -> PartialOrders] : n \in 0 .. MaxSysOrders}
    /\ num_projection_orders = Len(systematic_generator_orders_hacked)
    /\ costs \in CostVectors
    /\ GenBegin

(* the countdown timer runs out *)
TimerExpires ==
    /\ UNCHANGED <<evalVars, arrayPoolVars, divVars>>
    /\ UNCHANGED <<callVars, expired_on_entry>>
    /\ pc \notin {"done"}
    /\ ~timer_expired
    /\ timer_expired' = TRUE
    /\ UNCHANGED <<pc, options, cp_for_init, init_h, diversifier, cp_heuristics,
                   evaluated_orders, size_kb, sys_index,
                   num_selected_projection_orders, num_sampled_states>>

(* mutant: no early return for an unsolvable initial state *)
ComputeInitialPartitionNoEarlyReturn ==
    /\ UNCHANGED <<evalVars, arrayPoolVars, divVars>>
    /\ UNCHANGED <<expired_on_entry>>
    /\ pc = "start"
    /\ cp_call' = [site |-> "init", remaining_costs |-> costs]
    /\ UNCHANGED order
    /\ remaining_costs' \in LeftOver(costs)
    /\ \E cp \in CPCatalogue :
        /\ cp_for_init' = cp
        /\ init_h' = ComputeHeuristicCP(cp, abstract_state_ids_for_init)
    /\ pc' = "diversifier"
    /\ UNCHANGED <<options, timer_expired, diversifier, cp_heuristics, evaluated_orders,
                   size_kb, sys_index, num_selected_projection_orders,
                   num_sampled_states>>

(* lines 75-95: partition for the initial state, unsolvable exit *)
ComputeInitialPartition ==
    /\ UNCHANGED <<evalVars, arrayPoolVars, divVars>>
    /\ UNCHANGED <<expired_on_entry>>
    /\ pc = "start"
    /\ cp_call' = [site |-> "init", remaining_costs |-> costs]
    /\ UNCHANGED order
    /\ remaining_costs' \in LeftOver(costs)
    /\ \E cp \in CPCatalogue :
        LET h == ComputeHeuristicCP(cp, abstract_state_ids_for_init) IN
        /\ cp_for_init' = cp
        /\ init_h' = h
        /\ IF h = INF
           THEN /\ cp_heuristics' = <<cp>>
                /\ pc' = "done"
           ELSE /\ cp_heuristics' = cp_heuristics
                /\ pc' = "diversifier"
    /\ UNCHANGED <<options, timer_expired, diversifier, evaluated_orders, size_kb,
                   sys_index, num_selected_projection_orders, num_sampled_states>>

(* states the sampler can return: is_dead_end rejects those cp_for_init proves INF *)
SampledIds == {ids \in AbstractStateIds : ComputeHeuristicCP(cp_for_init, ids) # INF}

SampleSeqs(n) == [1 .. n -> SampledIds]

(* mutant: the sampling loop does not consult its timer before a sample *)
BuildDiversifierIgnoresTimer ==
    /\ UNCHANGED <<evalVars, arrayPoolVars, divVars>>
    /\ UNCHANGED <<callVars>>
    /\ pc = "diversifier"
    /\ \/ \* line 32 in a build with assertions: assert(num_samples >= 1) fails
          /\ diversify /\ num_samples < 1
          /\ pc' = "assertion_failed"
          /\ UNCHANGED <<diversifier, timer_expired, num_sampled_states,
                         expired_on_entry>>
       \/ \* the assertion holds, is compiled out (NDEBUG) or is never reached
          /\ IF diversify
             THEN \E n \in 1 .. Max2(num_samples, 1) :
                     /\ \E more \in SampleSeqs(n - 1) :
                           diversifier' =
                               NewDiversifier(<<abstract_state_ids_for_init>> \o more)
                     /\ timer_expired' = (timer_expired \/ n < num_samples)
                     /\ num_sampled_states' = num_sampled_states + (n - 1)
             ELSE /\ diversifier' = NoDiversifier
                  /\ UNCHANGED <<timer_expired, num_sampled_states>>
          /\ expired_on_entry' = timer_expired'
          /\ pc' = "systematic"
    /\ UNCHANGED <<options, cp_for_init, init_h, cp_heuristics, evaluated_orders,
                   size_kb, sys_index, num_selected_projection_orders>>

(* lines 24-46 and 104-110: sample the panel and build the Diversifier *)
BuildDiversifier ==
    /\ UNCHANGED <<evalVars, arrayPoolVars, divVars>>
    /\ UNCHANGED <<callVars>>
    /\ pc = "diversifier"
    /\ \/ \* line 32 in a build with assertions: assert(num_samples >= 1) fails
          /\ diversify /\ num_samples < 1
          /\ pc' = "assertion_failed"
          /\ UNCHANGED <<diversifier, timer_expired, num_sampled_states,
                         expired_on_entry>>
       \/ \* the assertion holds, is compiled out (NDEBUG) or is never reached
          /\ IF diversify
             THEN \E n \in 1 .. Max2(num_samples, 1) :
                     /\ timer_expired => n = 1
                     /\ \E more \in SampleSeqs(n - 1) :
                           diversifier' =
                               NewDiversifier(<<abstract_state_ids_for_init>> \o more)
                     /\ timer_expired' = (timer_expired \/ n < num_samples)
                     /\ num_sampled_states' = num_sampled_states + (n - 1)
             ELSE /\ diversifier' = NoDiversifier
                  /\ UNCHANGED <<timer_expired, num_sampled_states>>
          /\ expired_on_entry' = timer_expired'
          /\ pc' = "systematic"
    /\ UNCHANGED <<options, cp_for_init, init_h, cp_heuristics, evaluated_orders,
                   size_kb, sys_index, num_selected_projection_orders>>

(* lines 136-145 and 193-203: admission of a candidate; kb is what is added
   to size_kb on admission *)
Admit(cp, kb) ==
    IF ~diversifier.present \/ IsDiverse(diversifier, cp)
    THEN /\ size_kb' = size_kb + kb
         /\ cp_heuristics' = Append(cp_heuristics, cp)
         /\ diversifier' = IF diversifier.present
                           THEN AfterIsDiverse(diversifier, cp)
                           ELSE diversifier
    ELSE /\ UNCHANGED <<size_kb, cp_heuristics>>
         /\ diversifier' = AfterIsDiverse(diversifier, cp)

(* lines 119-122: early stop of the systematic loop *)
SystematicBreak ==
    /\ UNCHANGED <<evalVars, arrayPoolVars, divVars>>
    /\ UNCHANGED <<callVars, expired_on_entry>>
    /\ pc = "systematic"
    /\ sys_index < num_projection_orders
    /\ timer_expired /\ cp_heuristics # << >>
    /\ pc' = "sampling"
    /\ num_selected_projection_orders' = Len(cp_heuristics)
    /\ UNCHANGED <<options, timer_expired, cp_for_init, init_h, diversifier,
                   cp_heuristics, evaluated_orders, size_kb, sys_index,
                   num_sampled_states>>

(* mutant: a systematic admission adds to size_kb *)
SystematicOrderCountsSize ==
    /\ UNCHANGED <<evalVars, arrayPoolVars, divVars>>
    /\ UNCHANGED <<expired_on_entry>>
    /\ pc = "systematic"
    /\ sys_index < num_projection_orders
    /\ ~(timer_expired /\ cp_heuristics # << >>)
    /\ LET sys_order == systematic_generator_orders_hacked[sys_index + 1] IN
       \E abstraction_ids \in Shuffles(GetDefaultOrder(NumAbs)) :
          order' = CompleteOrder(sys_order, abstraction_ids)
    /\ cp_call' = [site |-> "systematic", remaining_costs |-> costs]
    /\ remaining_costs' \in LeftOver(costs)
    /\ \E cp \in CPCatalogue : Admit(cp, EstimateSizeInKb(cp))
    /\ sys_index' = sys_index + 1
    \* the deadline may pass while the candidate is computed
    /\ timer_expired' \in {timer_expired, TRUE}
    /\ UNCHANGED <<pc, options, cp_for_init, init_h, evaluated_orders,
                   num_selected_projection_orders, num_sampled_states>>

(* mutant: the loop hands the remaining_costs of line 85 to cp_function *)
SystematicOrderSharedCosts ==
    /\ UNCHANGED <<evalVars, arrayPoolVars, divVars>>
    /\ UNCHANGED <<expired_on_entry>>
    /\ pc = "systematic"
    /\ sys_index < num_projection_orders
    /\ ~(timer_expired /\ cp_heuristics # << >>)
    /\ LET sys_order == systematic_generator_orders_hacked[sys_index + 1] IN
       \E abstraction_ids \in Shuffles(GetDefaultOrder(NumAbs)) :
          order' = CompleteOrder(sys_order, abstraction_ids)
    /\ cp_call' = [site |-> "systematic", remaining_costs |-> remaining_costs]
    /\ remaining_costs' \in LeftOver(remaining_costs)
    /\ \E cp \in CPCatalogue : Admit(cp, 0)
    /\ sys_index' = sys_index + 1
    \* the deadline may pass while the candidate is computed
    /\ timer_expired' \in {timer_expired, TRUE}
    /\ UNCHANGED <<pc, options, cp_for_init, init_h, evaluated_orders,
                   num_selected_projection_orders, num_sampled_states>>

(* lines 119-146: one iteration of the loop over the systematic orders *)
SystematicOrder ==
    /\ UNCHANGED <<evalVars, arrayPoolVars, divVars>>
    /\ UNCHANGED <<expired_on_entry>>
    /\ pc = "systematic"
    /\ sys_index < num_projection_orders
    /\ ~(timer_expired /\ cp_heuristics # << >>)
    /\ LET sys_order == systematic_generator_orders_hacked[sys_index + 1] IN
       \E abstraction_ids \in Shuffles(GetDefaultOrder(NumAbs)) :
          order' = CompleteOrder(sys_order, abstraction_ids)
    /\ cp_call' = [site |-> "systematic", remaining_costs |-> costs]
    /\ remaining_costs' \in LeftOver(costs)
    /\ \E cp \in CPCatalogue : Admit(cp, 0)
    /\ sys_index' = sys_index + 1
    \* the deadline may pass while the candidate is computed
    /\ timer_expired' \in {timer_expired, TRUE}
    /\ UNCHANGED <<pc, options, cp_for_init, init_h, evaluated_orders,
                   num_selected_projection_orders, num_sampled_states>>

(* mutant: the sampling phase gets a Diversifier of its own *)
SystematicDoneFreshDiversifier ==
    /\ UNCHANGED <<evalVars, arrayPoolVars, divVars>>
    /\ UNCHANGED <<callVars, expired_on_entry>>
    /\ pc = "systematic"
    /\ sys_index = num_projection_orders
    /\ pc' = "sampling"
    /\ num_selected_projection_orders' = Len(cp_heuristics)
    /\ diversifier' = IF diversifier.present
                      THEN NewDiversifier(diversifier.abstract_state_ids_by_sample)
                      ELSE diversifier
    /\ UNCHANGED <<options, timer_expired, cp_for_init, init_h,
                   cp_heuristics, evaluated_orders, size_kb, sys_index,
                   num_sampled_states>>

(* lines 147-152: the loop over the systematic orders is exhausted *)
SystematicDone ==
    /\ UNCHANGED <<evalVars, arrayPoolVars, divVars>>
    /\ UNCHANGED <<callVars, expired_on_entry>>
    /\ pc = "systematic"
    /\ sys_index = num_projection_orders
    /\ pc' = "sampling"
    /\ num_selected_projection_orders' = Len(cp_heuristics)
    /\ UNCHANGED <<options, timer_expired, cp_for_init, init_h, diversifier,
                   cp_heuristics, evaluated_orders, size_kb, sys_index,
                   num_sampled_states>>

(* mutant: the loop guard without the exemption for an empty pool *)
SamplingGuardNoEmptyExemption ==
    /\ Len(cp_heuristics) < max_orders
    /\ ~timer_expired
    /\ size_kb < max_size_kb

(* mutant: the loop guard with <= in the test against max_orders *)
SamplingGuardOffByOne ==
    /\ Len(cp_heuristics) <= max_orders
    /\ (~timer_expired \/ cp_heuristics = << >>)
    /\ size_kb < max_size_kb

(* mutant: the loop guard without the test of size_kb *)
SamplingGuardNoSizeCap ==
    /\ Len(cp_heuristics) < max_orders
    /\ (~timer_expired \/ cp_heuristics = << >>)

(* mutant: the loop guard without the test of the timer *)
SamplingGuardIgnoresTimer ==
    /\ Len(cp_heuristics) < max_orders
    /\ size_kb < max_size_kb

(* mutant: the loop guard exempts the first iteration, not the empty pool *)
SamplingGuardFirstIterationExempt ==
    /\ Len(cp_heuristics) < max_orders
    /\ (~timer_expired \/ evaluated_orders = 0)
    /\ size_kb < max_size_kb

(* lines 154-156: guard of the sampling loop *)
SamplingGuard ==
    /\ Len(cp_heuristics) < max_orders
    /\ (~timer_expired \/ cp_heuristics = << >>)
    /\ size_kb < max_size_kb

(* lines 176-189: hill climbing may replace the partition by one that is
   better at the sample, when there is optimization time *)
Optimized(cp, ids) ==
    {cp} \cup
    IF ~timer_expired /\ max_optimization_time > 0
    THEN {q \in CPCatalogue : ComputeHeuristicCP(q, ids) > ComputeHeuristicCP(cp, ids)}
    ELSE {}

(* lines 154-206: one iteration of the sampling loop *)
SampledOrder ==
    /\ UNCHANGED <<evalVars, arrayPoolVars, divVars>>
    /\ UNCHANGED <<expired_on_entry>>
    /\ pc = "sampling"
    /\ SamplingGuard
    /\ evaluated_orders < MaxEvaluatedOrders
    /\ IF evaluated_orders = 0
       THEN /\ \E cp \in Optimized(cp_for_init, abstract_state_ids_for_init) :
                  Admit(cp, EstimateSizeInKb(cp))
            /\ UNCHANGED <<num_sampled_states, callVars>>
       ELSE /\ cp_call' = [site |-> "sampling", remaining_costs |-> costs]
            /\ UNCHANGED order
            /\ remaining_costs' \in LeftOver(costs)
            /\ \E ids \in SampledIds : \E cp0 \in CPCatalogue :
                  \E cp \in Optimized(cp0, ids) : Admit(cp, EstimateSizeInKb(cp))
            /\ num_sampled_states' = num_sampled_states + 1
    /\ evaluated_orders' = evaluated_orders + 1
    \* the deadline may pass while the candidate is computed
    /\ timer_expired' \in {timer_expired, TRUE}
    /\ UNCHANGED <<pc, options, cp_for_init, init_h, sys_index,
                   num_selected_projection_orders>>

(* lines 208-213: the loop guard fails, the pool is returned *)
ReturnPool ==
    /\ UNCHANGED <<evalVars, arrayPoolVars, divVars>>
    /\ UNCHANGED <<callVars, expired_on_entry>>
    /\ pc = "sampling"
    /\ ~SamplingGuard
    /\ pc' = "done"
    /\ UNCHANGED <<options, timer_expired, cp_for_init, init_h, diversifier,
                   cp_heuristics, evaluated_orders, size_kb, sys_index,
                   num_selected_projection_orders, num_sampled_states>>

GenNext ==
    \/ TimerExpires
    \/ ComputeInitialPartition
    \/ BuildDiversifier
    \/ SystematicBreak
    \/ SystematicOrder
    \/ SystematicDone
    \/ SampledOrder
    \/ ReturnPool

Spec == GenInit /\ [][GenNext]_vars

CallSpec == GenCallInit /\ [][GenNext]_vars

Returned == pc = "done"
Solvable == ComputeHeuristicCP(cp_for_init, abstract_state_ids_for_init) # INF

(* ------------------------------ ArrayPool ------------------------------ *)
MaxVecLen == 2
MaxPushes == 3
MaxValue == 1

PoolValues == 0 .. MaxValue
Vectors == UNION {[1 .. n -> PoolValues] : n \in 0 .. MaxVecLen}

(* ArrayPool::size *)
Size == Len(positions)

(* mutant: the slice always ends at data.end() *)
GetSliceToEnd(index) ==
    [index |-> index, first |-> positions[index + 1], last |-> Len(data)]

(* ArrayPool::get_slice: the iterators as offsets from data.begin() *)
GetSlice(index) ==
    [index |-> index,
     first |-> positions[index + 1],
     last |-> IF index = Size - 1 THEN Len(data) ELSE positions[index + 2]]

(* the elements between the two iterators of a slice *)
SliceElements(sl) == SubSeq(data, sl.first + 1, sl.last)

ArrayPoolInit ==
    /\ pc = "array_pool"
    /\ data = << >> /\ positions = << >> /\ pushed = << >>
    /\ slice = [index |-> -1, first |-> 0, last |-> 0]
    /\ GenIdle /\ EvalIdle /\ DivIdle
    /\ diversifier = NoDiversifier
    /\ cp_heuristics = << >>

(* ArrayPool::push_back *)
PushBack ==
    /\ pc = "array_pool"
    /\ Len(pushed) < MaxPushes
    /\ \E vec \in Vectors :
        /\ positions' = Append(positions, Len(data))
        /\ data' = data \o vec
        /\ pushed' = Append(pushed, vec)
    /\ UNCHANGED <<pc, slice, genVars, evalVars, divVars, diversifier, cp_heuristics>>

(* a call of ArrayPool::get_slice with an index in [0, size()) *)
CallGetSlice ==
    /\ pc = "array_pool"
    /\ \E index \in 0 .. (Size - 1) : slice' = GetSlice(index)
    /\ UNCHANGED <<pc, data, positions, pushed, genVars, evalVars, divVars,
                   diversifier, cp_heuristics>>

ArrayPoolNext ==
    \/ PushBack
    \/ CallGetSlice

ArrayPoolSpec == ArrayPoolInit /\ [][ArrayPoolNext]_vars

(* what a read outside the storage of positions can yield *)
MaxStray == 2
StrayValues == 0 .. MaxStray

(* positions[i] as operator[] performs it: unchecked, so an i outside
   [0, size()) reads whatever lies there *)
ReadPositions(i, stray) ==
    IF i \in 0 .. (Size - 1) THEN positions[i + 1] ELSE stray

(* ArrayPool::get_slice as written, for any int index: no range check
   precedes the two reads of positions *)
GetSliceUnchecked(index, stray1, stray2) ==
    [index |-> index,
     first |-> ReadPositions(index, stray1),
     last |-> IF index = Size - 1 THEN Len(data)
              ELSE ReadPositions(index + 1, stray2)]

(* a call of ArrayPool::get_slice with an index outside [0, size()): the
   out-of-bounds read is undefined behaviour, it either faults or yields
   a stray value from which a slice is built and returned *)
CallGetSliceOutOfRange ==
    /\ pc = "array_pool"
    /\ \E index \in {-1, Size, Size + 1} :
        \/ /\ pc' = "memory_fault"
           /\ slice' = [index |-> index, first |-> 0, last |-> 0]
        \/ /\ pc' = "out_of_range_slice"
           /\ \E stray1, stray2 \in StrayValues :
                slice' = GetSliceUnchecked(index, stray1, stray2)
    /\ UNCHANGED <<data, positions, pushed, genVars, evalVars, divVars,
                   diversifier, cp_heuristics>>

ArrayPoolMisuseNext ==
    \/ PushBack
    \/ CallGetSlice
    \/ CallGetSliceOutOfRange

ArrayPoolMisuseSpec == ArrayPoolInit /\ [][ArrayPoolMisuseNext]_vars

(* --------------------- MaxCostPartitioningHeuristic -------------------- *)
MaxPoolSize == 2
MaxQueries == 2

(* partitions with a table for every abstraction *)
AllTables(s, v) == [a \in AbsIds |-> UnitTable(s, v)]

(* pools handed to the evaluator *)
EvalCatalogue ==
    CPCatalogue \cup {AllTables(s, v) : s \in StateIds, v \in GenValues \ {0}}
Pools == UNION {[1 .. n -> EvalCatalogue] : n \in 0 .. MaxPoolSize}

(* UnsolvabilityHeuristic: per abstraction the abstract states it proves
   unsolvable; an abstraction with none has no entry *)
UnsolvabilityHeuristics == [AbsIds -> SUBSET StateIds]

(* UnsolvabilityHeuristic::mark_useful_abstractions *)
MarkUsefulUnsolvability(uh, useful) ==
    [a \in AbsIds |-> useful[a] \/ uh[a] # {}]

(* CostPartitioningHeuristic::mark_useful_abstractions *)
MarkUsefulCP(cp, useful) ==
    [a \in AbsIds |-> useful[a] \/ a \in StoredTables(cp)]

RECURSIVE MarkUsefulPool(_, _, _)
MarkUsefulPool(pool, i, useful) ==
    IF i > Len(pool) THEN useful
    ELSE MarkUsefulPool(pool, i + 1, MarkUsefulCP(pool[i], useful))

(* mutant: the marks of the unsolvability heuristic are dropped *)
UsefulAbstractionsPoolOnly(pool, uh) ==
    MarkUsefulPool(pool, 1, [a \in AbsIds |-> FALSE])

(* lines 49-54: ids of the useful abstractions *)
UsefulAbstractions(pool, uh) ==
    MarkUsefulPool(pool, 1,
        MarkUsefulUnsolvability(uh, [a \in AbsIds |-> FALSE]))

(* lines 43-67: extract_abstraction_functions_from_useful_abstractions *)
ExtractAbstractionFunctions(pool, uh) ==
    [a \in AbsIds |->
        IF UsefulAbstractions(pool, uh)[a] THEN "abstraction_function" ELSE "nullptr"]

(* get_abstract_state_ids(abstraction_functions, state): a concrete state is
   given by the abstract state it has in every abstraction; -1 stands in for
   an abstraction without function *)
GetAbstractStateIds(functions, state) ==
    [a \in AbsIds |-> IF functions[a] = "nullptr" THEN -1 ELSE state[a]]

(* UnsolvabilityHeuristic::is_unsolvable *)
IsUnsolvable(uh, ids) == \E a \in AbsIds : uh[a] # {} /\ ids[a] \in uh[a]

(* compute_max_h_with_statistics: the loop over the pool members from member
   i on, carrying max_h and the position of the first member that reached it *)
RECURSIVE MaxHLoop(_, _, _, _, _)
MaxHLoop(pool, ids, i, max_h, best_id) ==
    IF i > Len(pool) THEN [max_h |-> max_h, best_id |-> best_id]
    ELSE LET sum_h == ComputeHeuristicCP(pool[i], ids)
         IN IF sum_h > max_h
            THEN MaxHLoop(pool, ids, i + 1, sum_h, i - 1)
            ELSE MaxHLoop(pool, ids, i + 1, max_h, best_id)

ComputeMaxH(pool, ids) == MaxHLoop(pool, ids, 1, 0, -1)

(* num_best_order after compute_max_h_with_statistics *)
TallyBestOrder(tally, pool, best_id) ==
    [i \in 1 .. Len(pool) |->
        (IF i <= Len(tally) THEN tally[i] ELSE 0) + (IF i - 1 = best_id THEN 1 ELSE 0)]

EvalInit ==
    /\ pc = "construct"
    /\ cp_heuristics \in Pools
    /\ unsolvability_heuristic \in UnsolvabilityHeuristics
    /\ abstraction_functions = << >>
    /\ num_best_order = << >>
    /\ query_state = [a \in AbsIds |-> 0]
    /\ heuristic_result = 0
    /\ num_queries = 0
    /\ num_cp_evaluations = 0
    /\ GenIdle /\ ArrayPoolIdle /\ DivIdle
    /\ diversifier = NoDiversifier

(* lines 69-97: the constructor *)
Construct ==
    /\ pc = "construct"
    /\ abstraction_functions' =
           ExtractAbstractionFunctions(cp_heuristics, unsolvability_heuristic)
    /\ pc' = "search"
    /\ UNCHANGED <<cp_heuristics, unsolvability_heuristic, num_best_order, query_state,
                   heuristic_result, num_queries, num_cp_evaluations,
                   genVars, arrayPoolVars, divVars, diversifier>>

(* mutant: the pool is scanned before the unsolvability heuristic is asked *)
ComputeHeuristicScanFirst ==
    /\ pc = "search"
    /\ num_queries < MaxQueries
    /\ \E state \in AbstractStateIds :
        LET ids == GetAbstractStateIds(abstraction_functions, state)
            r == ComputeMaxH(cp_heuristics, ids)
        IN /\ query_state' = state
           /\ num_best_order' = TallyBestOrder(num_best_order, cp_heuristics, r.best_id)
           /\ num_cp_evaluations' = num_cp_evaluations + Len(cp_heuristics)
           /\ heuristic_result' =
                  IF IsUnsolvable(unsolvability_heuristic, ids) THEN DEAD_END ELSE r.max_h
    /\ num_queries' = num_queries + 1
    /\ UNCHANGED <<pc, cp_heuristics, unsolvability_heuristic, abstraction_functions,
                   genVars, arrayPoolVars, divVars, diversifier>>

(* mutant: an infinite maximum is reported as DEAD_END *)
ComputeHeuristicInfAsDeadEnd ==
    /\ pc = "search"
    /\ num_queries < MaxQueries
    /\ \E state \in AbstractStateIds :
        LET ids == GetAbstractStateIds(abstraction_functions, state) IN
        /\ query_state' = state
        /\ IF IsUnsolvable(unsolvability_heuristic, ids)
           THEN /\ heuristic_result' = DEAD_END
                /\ UNCHANGED <<num_best_order, num_cp_evaluations>>
           ELSE LET r == ComputeMaxH(cp_heuristics, ids) IN
                /\ heuristic_result' = IF r.max_h = INF THEN DEAD_END ELSE r.max_h
                /\ num_best_order' =
                       TallyBestOrder(num_best_order, cp_heuristics, r.best_id)
                /\ num_cp_evaluations' = num_cp_evaluations + Len(cp_heuristics)
    /\ num_queries' = num_queries + 1
    /\ UNCHANGED <<pc, cp_heuristics, unsolvability_heuristic, abstraction_functions,
                   genVars, arrayPoolVars, divVars, diversifier>>

(* mutant: the value of the previous query is kept when it is larger *)
ComputeHeuristicKeepsLargest ==
    /\ pc = "search"
    /\ num_queries < MaxQueries
    /\ \E state \in AbstractStateIds :
        LET ids == GetAbstractStateIds(abstraction_functions, state) IN
        /\ query_state' = state
        /\ IF IsUnsolvable(unsolvability_heuristic, ids)
           THEN /\ heuristic_result' = DEAD_END
                /\ UNCHANGED <<num_best_order, num_cp_evaluations>>
           ELSE LET r == ComputeMaxH(cp_heuristics, ids) IN
                /\ heuristic_result' = Max2(r.max_h, heuristic_result)
                /\ num_best_order' =
                       TallyBestOrder(num_best_order, cp_heuristics, r.best_id)
                /\ num_cp_evaluations' = num_cp_evaluations + Len(cp_heuristics)
    /\ num_queries' = num_queries + 1
    /\ UNCHANGED <<pc, cp_heuristics, unsolvability_heuristic, abstraction_functions,
                   genVars, arrayPoolVars, divVars, diversifier>>

(* lines 110-132: compute_heuristic(state) *)
ComputeHeuristic ==
    /\ pc = "search"
    /\ num_queries < MaxQueries
    /\ \E state \in AbstractStateIds :
        LET ids == GetAbstractStateIds(abstraction_functions, state) IN
        /\ query_state' = state
        /\ IF IsUnsolvable(unsolvability_heuristic, ids)
           THEN /\ heuristic_result' = DEAD_END
                /\ UNCHANGED <<num_best_order, num_cp_evaluations>>
           ELSE LET r == ComputeMaxH(cp_heuristics, ids) IN
                /\ heuristic_result' = r.max_h
                /\ num_best_order' =
                       TallyBestOrder(num_best_order, cp_heuristics, r.best_id)
                /\ num_cp_evaluations' = num_cp_evaluations + Len(cp_heuristics)
    /\ num_queries' = num_queries + 1
    /\ UNCHANGED <<pc, cp_heuristics, unsolvability_heuristic, abstraction_functions,
                   genVars, arrayPoolVars, divVars, diversifier>>

EvalNext ==
    \/ Construct
    \/ ComputeHeuristic

EvalSpec == EvalInit /\ [][EvalNext]_vars

(* ------------------- Diversifier::is_diverse alone --------------------- *)
MaxPanel == 3

DivValues == {0, 2, 3, INF}
(* tables worth 2 or 3 at abstract state 0 and 0 or INF at the others *)
DivTables ==
    {NoTable} \cup
    {t \in [StateIds -> DivValues] :
        t[0] \in {2, 3} /\ \A s \in StateIds \ {0} : t[s] \in {0, INF}}
(* candidates handed to is_diverse *)
DivCandidates == [AbsIds -> DivTables]
(* panel entries: states that leave abstract state 0 in at most one abstraction *)
PanelIds ==
    {ids \in AbstractStateIds : Cardinality({a \in AbsIds : ids[a] # 0}) <= 1}
Panels == UNION {[1 .. n -> PanelIds] : n \in 1 .. MaxPanel}

CandidateValues(d, cp) ==
    [i \in 1 .. Len(d.portfolio_h_values) |-> SampleValue(d, cp, i)]

DivInit ==
    /\ pc = "is_diverse"
    /\ \E panel \in Panels : diversifier = NewDiversifier(panel)
    /\ candidate_h_values = << >>
    /\ is_diverse_result = FALSE
    /\ GenIdle /\ EvalIdle /\ ArrayPoolIdle
    /\ cp_heuristics = << >>

(* a call of Diversifier::is_diverse *)
CallIsDiverse ==
    /\ pc = "is_diverse"
    /\ \E cp \in DivCandidates :
        /\ candidate_h_values' = CandidateValues(diversifier, cp)
        /\ is_diverse_result' = IsDiverse(diversifier, cp)
        /\ diversifier' = AfterIsDiverse(diversifier, cp)
    /\ UNCHANGED <<pc, cp_heuristics, genVars, evalVars, arrayPoolVars>>

DivNext == CallIsDiverse

DivSpec == DivInit /\ [][DivNext]_vars

(* ------------------------------ claims --------------------------------- *)

(* C1 as stated: whatever max_orders, max_size_kb and the time budget are, the
   returned pool is never empty. *)
C1_PoolNeverEmpty == Returned => cp_heuristics # << >>

(* C1 amended: the returned pool is never empty when max_orders >= 1 and
   max_size_kb >= 1 (whatever the time budget, the diversify flag and the
   number of systematic orders), and also when the initial state is proved
   unsolvable. *)
C1_PoolNonEmptyWithPositiveCaps ==
    (Returned /\ (~Solvable \/ (max_orders >= 1 /\ max_size_kb >= 1)))
        => cp_heuristics # << >>

(* C1 witness: a return with the timer expired and an empty systematic phase,
   where the first sampling iteration supplied the only member. *)
C1_Witness ==
    /\ Returned /\ Solvable /\ timer_expired
    /\ max_orders >= 1 /\ max_size_kb >= 1
    /\ num_selected_projection_orders = 0
    /\ evaluated_orders = 1 /\ Len(cp_heuristics) = 1

(* C2 as stated: on return the pool has at most max_orders members. *)
C2_PoolAtMostMaxOrders == Returned => Len(cp_heuristics) <= max_orders

(* C2 amended: only the sampling loop is bounded by max_orders. On return of a
   solvable task the pool has at most max(max_orders, number of partitions the
   systematic phase admitted) members; for an unsolvable task it has exactly
   one member whatever max_orders is. *)
C2_PoolBoundedBySamplingGuard ==
    Returned =>
        IF Solvable
        THEN Len(cp_heuristics) <= Max2(max_orders, num_selected_projection_orders)
        ELSE Len(cp_heuristics) = 1

(* C2 witness: a return where the sampling phase filled the pool up to
   max_orders after the systematic phase had admitted a partition. *)
C2_Witness ==
    /\ Returned /\ Solvable
    /\ num_selected_projection_orders >= 1
    /\ Len(cp_heuristics) > num_selected_projection_orders
    /\ Len(cp_heuristics) = max_orders

(* C3 as stated: on return size_kb is at most max_size_kb. *)
C3_SizeAtMostMaxSize == Returned => size_kb <= max_size_kb

(* C3 amended: the size cap is tested before a partition is computed, not
   after it is admitted. On return size_kb is 0, or size_kb without the size of
   the last admitted partition is below max_size_kb; size_kb itself may exceed
   max_size_kb by less than the size of that last partition. *)
C3_SizeBelowCapBeforeLastAdmission ==
    Returned =>
        \/ size_kb = 0
        \/ /\ Len(cp_heuristics) > num_selected_projection_orders
           /\ size_kb - EstimateSizeInKb(cp_heuristics[Len(cp_heuristics)]) < max_size_kb

(* C3 witness: a return after two sampling admissions of positive size. *)
C3_Witness ==
    /\ Returned
    /\ Len(cp_heuristics) >= num_selected_projection_orders + 2
    /\ size_kb > EstimateSizeInKb(cp_heuristics[Len(cp_heuristics)])
    /\ EstimateSizeInKb(cp_heuristics[Len(cp_heuristics)]) > 0

(* C4: when the partition of the initial-state order evaluates to INF at the
   initial state's ids, the generator returns the pool holding exactly that
   partition, and no state was sampled, no Diversifier was built, no systematic
   order and no sampling iteration was run. *)
C4_UnsolvableSingleton ==
    (pc # "start" /\ ~Solvable) =>
        /\ Returned
        /\ cp_heuristics = <<cp_for_init>>
        /\ init_h = INF
        /\ ~diversifier.present
        /\ num_sampled_states = 0
        /\ sys_index = 0
        /\ evaluated_orders = 0

(* C4 witness: a return for an unsolvable initial state with diversification
   on and systematic orders available. *)
C4_Witness ==
    /\ Returned /\ ~Solvable /\ pc # "start"
    /\ diversify /\ num_projection_orders >= 1 /\ max_orders >= 2

(* C9: across the is_diverse calls of both phases the best-known value of
   every panel entry never decreases, and an entry whose best-known value is
   INF keeps it. *)
C9_PortfolioMonotone ==
    [][(diversifier.present /\ diversifier'.present) =>
        /\ Len(diversifier'.portfolio_h_values) = Len(diversifier.portfolio_h_values)
        /\ \A i \in 1 .. Len(diversifier.portfolio_h_values) :
              /\ diversifier'.portfolio_h_values[i] >= diversifier.portfolio_h_values[i]
              /\ (diversifier.portfolio_h_values[i] = INF
                    => diversifier'.portfolio_h_values[i] = INF)]_vars

(* C9 witness: both phases have called is_diverse, an entry has reached INF and
   another entry has been raised to a finite value. *)
C9_Witness ==
    /\ diversifier.present
    /\ sys_index >= 1 /\ evaluated_orders >= 2
    /\ \E i, j \in 1 .. Len(diversifier.portfolio_h_values) :
          /\ diversifier.portfolio_h_values[i] = INF
          /\ diversifier.portfolio_h_values[j] \in 1 .. (INF - 1)

(* C7: for vectors pushed with push_back in order, get_slice(i) delimits exactly
   the elements of the i-th vector in their order, for every i in [0, size()),
   also after further pushes, and size() is the number of pushes so far. *)
C7_SliceIsPushedVector ==
    pc = "array_pool" =>
        /\ Size = Len(pushed)
        /\ \A i \in 0 .. (Size - 1) : SliceElements(GetSlice(i)) = pushed[i + 1]
        /\ slice.index >= 0 => SliceElements(slice) = pushed[slice.index + 1]

(* C7 witness: a slice of an empty vector and a slice of a non-empty vector,
   neither the last one pushed, the recorded slice taken before a later push. *)
C7_Witness ==
    /\ pc = "array_pool"
    /\ Size = MaxPushes
    /\ \E i, j \in 0 .. (Size - 2) :
          /\ pushed[i + 1] = << >>
          /\ Len(pushed[j + 1]) = MaxVecLen
          /\ SliceElements(GetSlice(j)) = pushed[j + 1]
    /\ slice.index >= 0 /\ slice.index < Size - 1
    /\ slice.last < Len(data)

QueryIds == GetAbstractStateIds(abstraction_functions, query_state)
Queried == pc = "search" /\ num_queries >= 1
MemberValues == {ComputeHeuristicCP(cp_heuristics[i], QueryIds) : i \in 1 .. Len(cp_heuristics)}

(* C5: for a state that the unsolvability heuristic does not certify a dead
   end, compute_heuristic returns the maximum of the members' evaluations at
   the state's abstract ids, INF if some member evaluates to INF; the value of
   a pool of two partitions is the maximum of the values of the two pools
   holding one of them. *)
C5_MaxOverPool ==
    (Queried /\ ~IsUnsolvable(unsolvability_heuristic, QueryIds) /\ cp_heuristics # << >>)
        => /\ heuristic_result \in MemberValues
           /\ \A v \in MemberValues : heuristic_result >= v
           /\ (INF \in MemberValues => heuristic_result = INF)
           /\ Len(cp_heuristics) = 2 =>
                 heuristic_result =
                     Max2(ComputeMaxH(<<cp_heuristics[1]>>, QueryIds).max_h,
                          ComputeMaxH(<<cp_heuristics[2]>>, QueryIds).max_h)

(* C5 witness: a query on a pool of two members, the first with a finite value
   above 0 and the second evaluating to INF. *)
C5_Witness ==
    /\ Queried /\ ~IsUnsolvable(unsolvability_heuristic, QueryIds)
    /\ Len(cp_heuristics) = 2
    /\ ComputeHeuristicCP(cp_heuristics[1], QueryIds) = 1
    /\ ComputeHeuristicCP(cp_heuristics[2], QueryIds) = INF
    /\ heuristic_result = INF

(* C6: a compute_heuristic call on a state whose ids the unsolvability
   heuristic certifies a dead end returns DEAD_END, evaluates no pool member
   and leaves num_best_order unchanged. *)
C6_DeadEndShortCircuit ==
    [][(num_queries' = num_queries + 1 /\
        IsUnsolvable(unsolvability_heuristic,
                     GetAbstractStateIds(abstraction_functions, query_state')))
        => /\ heuristic_result' = DEAD_END
           /\ num_best_order' = num_best_order
           /\ num_cp_evaluations' = num_cp_evaluations]_vars

(* C6 witness: a dead-end query answered after a query that had tallied a
   best order, on a pool with a member that evaluates above 0 at the dead end. *)
C6_Witness ==
    /\ Queried /\ num_queries = 2
    /\ IsUnsolvable(unsolvability_heuristic, QueryIds)
    /\ heuristic_result = DEAD_END
    /\ \E i \in 1 .. Len(num_best_order) : num_best_order[i] = 1
    /\ num_cp_evaluations = Len(cp_heuristics)
    /\ \E v \in MemberValues : v > 0

(* C8: after construction slot a holds an abstraction function exactly when
   abstraction a is marked useful by the unsolvability heuristic or has a
   stored table in some pool member, and nullptr otherwise; so the id of every
   abstraction with a stored table comes from a function, never from the
   placeholder. *)
C8_FunctionsForUsefulAbstractions ==
    pc = "search" =>
        /\ \A a \in AbsIds :
              /\ abstraction_functions[a] \in {"abstraction_function", "nullptr"}
              /\ abstraction_functions[a] = "abstraction_function" <=>
                    \/ unsolvability_heuristic[a] # {}
                    \/ \E i \in 1 .. Len(cp_heuristics) : cp_heuristics[i][a] # NoTable
        /\ \A state \in AbstractStateIds : \A i \in 1 .. Len(cp_heuristics) :
              \A a \in AbsIds :
                  cp_heuristics[i][a] # NoTable =>
                      GetAbstractStateIds(abstraction_functions, state)[a] = state[a]

(* C8 witness: a built evaluator with a useless abstraction (nullptr) and an
   abstraction that only a pool member marks useful, after a query that used
   the placeholder id. *)
C8_Witness ==
    /\ Queried
    /\ \E a, b \in AbsIds :
          /\ abstraction_functions[a] = "nullptr"
          /\ QueryIds[a] = -1
          /\ abstraction_functions[b] = "abstraction_function"
          /\ unsolvability_heuristic[b] = {}
    /\ heuristic_result > 0

(* C10: is_diverse returns true exactly when the candidate's value strictly
   exceeds the best-known value of at least one panel entry, and then raises
   exactly those entries to the candidate's value; when no entry is exceeded it
   returns false and leaves every best-known value unchanged. *)
C10_IsDiverseExact ==
    [][(candidate_h_values' # candidate_h_values \/ diversifier' # diversifier
            \/ is_diverse_result' # is_diverse_result) =>
        LET best == diversifier.portfolio_h_values
            new == diversifier'.portfolio_h_values
            cand == candidate_h_values'
            improved == {i \in 1 .. Len(best) : cand[i] > best[i]}
        IN /\ Len(new) = Len(best) /\ Len(cand) = Len(best)
           /\ is_diverse_result' = (improved # {})
           /\ \A i \in 1 .. Len(best) :
                 new[i] = IF i \in improved THEN cand[i] ELSE best[i]
           /\ improved = {} => new = best]_vars

(* C10 witness: best-known values [5, INF, 2] and the candidate [4, INF, 2]
   just rejected. *)
C10_Witness ==
    /\ pc = "is_diverse"
    /\ diversifier.portfolio_h_values = <<5, INF, 2>>
    /\ candidate_h_values = <<4, INF, 2>>
    /\ is_diverse_result = FALSE

(* C11: a get_slice call with an index outside [0, size()), an empty pool
   included, never returns a slice: it stops at a contract check. *)
C11_OutOfRangeFailsFast == pc # "out_of_range_slice"


(* the value of a query as a function of the built evaluator and the state
   alone *)
ValueOfState ==
    IF IsUnsolvable(unsolvability_heuristic, QueryIds) THEN DEAD_END
    ELSE IF cp_heuristics = << >> THEN 0
    ELSE CHOOSE v \in MemberValues : \A w \in MemberValues : v >= w

(* C19: every compute_heuristic query leaves the pool, the unsolvability
   heuristic and the retained abstraction functions unchanged, and the value
   it returns is determined by them and the queried state alone, whatever
   queries were answered before. *)
C19_QueriesReadOnly ==
    /\ [](Queried => heuristic_result = ValueOfState)
    /\ [][pc = "search" =>
            /\ cp_heuristics' = cp_heuristics
            /\ unsolvability_heuristic' = unsolvability_heuristic
            /\ abstraction_functions' = abstraction_functions]_vars

(* C19 witness: a second query returns 0 on a pool of two members after an
   earlier query had returned a value above 0 and tallied its best order. *)
C19_Witness ==
    /\ Queried /\ num_queries = 2
    /\ Len(cp_heuristics) = 2
    /\ ~IsUnsolvable(unsolvability_heuristic, QueryIds)
    /\ heuristic_result = 0
    /\ \E i \in 1 .. Len(num_best_order) : num_best_order[i] = 1


(* C12: with num_samples < 1 and a solvable task, generate_cost_partitionings
   stops at an assertion before any pool is built, whether diversification
   is on or off. *)
C12_SmallPanelFailsFast ==
    (num_samples < 1 /\ Solvable) => pc \in {"start", "diversifier", "assertion_failed"}


(* C13: while the systematic phase runs size_kb stays 0, whatever is
   admitted and whatever max_size_kb is; an iteration that begins with the
   timer expired and a non-empty pool ends the phase without looking at the
   remaining orders, every other iteration processes its order, and the
   phase ends only that way or when the orders are exhausted. *)
C13_SystematicExemptFromSizeCap ==
    [][pc = "systematic" =>
          /\ size_kb = 0 /\ size_kb' = 0
          /\ sys_index < num_projection_orders =>
                IF timer_expired /\ cp_heuristics # << >>
                THEN /\ pc' = "sampling"
                     /\ sys_index' = sys_index
                     /\ cp_heuristics' = cp_heuristics
                ELSE /\ pc' = "systematic"
                     /\ \/ sys_index' = sys_index + 1
                        \/ /\ ~timer_expired /\ timer_expired'
                           /\ sys_index' = sys_index
                           /\ cp_heuristics' = cp_heuristics
          /\ pc' = "sampling" =>
                \/ sys_index = num_projection_orders
                \/ timer_expired /\ cp_heuristics # << >>]_vars

(* C13 witness: the sampling phase is entered with size_kb = 0 after two
   systematic partitions were admitted whose estimated sizes together exceed
   max_size_kb. *)
C13_Witness ==
    /\ pc = "sampling" /\ evaluated_orders = 0
    /\ num_selected_projection_orders = 2
    /\ size_kb = 0
    /\ EstimateSizeInKb(cp_heuristics[1]) + EstimateSizeInKb(cp_heuristics[2]) > max_size_kb


(* C15: a run on a solvable task with max_orders >= 1 and max_size_kb >= 1
   whose timer is expired when the systematic loop begins returns exactly
   one partition: after a systematic admission the sampling loop runs no
   iteration, and the partition of the initial state is the member only
   when there was no systematic order to admit. *)
C15_ExpiredOnEntryOneMember ==
    (Returned /\ expired_on_entry /\ Solvable /\ max_orders >= 1 /\ max_size_kb >= 1)
        => /\ Len(cp_heuristics) = 1
           /\ num_selected_projection_orders = 1 => evaluated_orders = 0
           /\ num_selected_projection_orders = 0 =>
                 /\ num_projection_orders = 0
                 /\ evaluated_orders = 1
                 /\ cp_heuristics[1] = cp_for_init

(* C15 witness: a diversified run with two systematic orders and room for
   two partitions, timer expired on entry, returns after one systematic
   admission and no sampling iteration. *)
C15_Witness ==
    /\ Returned /\ expired_on_entry /\ Solvable /\ diversify
    /\ max_orders = 2 /\ max_size_kb >= 1 /\ num_projection_orders = 2
    /\ Len(cp_heuristics) = 1 /\ num_selected_projection_orders = 1
    /\ evaluated_orders = 0

(* C16: from a state with the timer expired and a non-empty pool no
   iteration of either loop starts: the systematic loop is left, the
   sampling loop returns the pool, and the pool stays as it is; with the
   timer expired and the pool empty the next systematic order is processed
   and, the two caps permitting, the next sampling iteration runs. *)
C16_ExpiryStopsOnlyNonEmptyPool ==
    [][/\ (timer_expired /\ cp_heuristics # << >> /\ pc \in {"systematic", "sampling"})
            => /\ cp_heuristics' = cp_heuristics
               /\ sys_index' = sys_index
               /\ evaluated_orders' = evaluated_orders
               /\ pc' = IF pc = "systematic" THEN "sampling" ELSE "done"
       /\ (timer_expired /\ cp_heuristics = << >> /\ pc = "systematic"
             /\ sys_index < num_projection_orders)
            => pc' = "systematic" /\ sys_index' = sys_index + 1
       /\ (timer_expired /\ cp_heuristics = << >> /\ pc = "sampling"
             /\ max_orders >= 1 /\ size_kb < max_size_kb)
            => pc' = "sampling" /\ evaluated_orders' = evaluated_orders + 1]_vars

(* C16 witness: the deadline passed after the systematic loop began, the
   candidate of a sampling iteration was admitted all the same, and the
   pool was returned with both caps still open. *)
C16_Witness ==
    /\ Returned /\ Solvable /\ timer_expired /\ ~expired_on_entry
    /\ evaluated_orders >= 1 /\ num_selected_projection_orders = 0
    /\ Len(cp_heuristics) = 1
    /\ Len(cp_heuristics) < max_orders /\ size_kb < max_size_kb


(* C18: with diversification on and num_samples >= 1 the panel of the
   Diversifier has between 1 and num_samples entries and its first entry is
   the abstract-id vector of the initial state; when the timer is already
   expired as sampling starts the panel has exactly one entry. *)
C18_PanelWithinBounds ==
    /\ []((diversifier.present /\ num_samples >= 1) =>
             LET panel == diversifier.abstract_state_ids_by_sample IN
             /\ Len(panel) >= 1 /\ Len(panel) <= num_samples
             /\ panel[1] = abstract_state_ids_for_init)
    /\ [][(pc = "diversifier" /\ pc' = "systematic" /\ diversify /\ num_samples >= 1
             /\ timer_expired)
            => Len(diversifier'.abstract_state_ids_by_sample) = 1]_vars

(* C18 witness: a Diversifier built for num_samples = 2 with the timer
   expired holds the one-entry panel of the initial state. *)
C18_Witness ==
    /\ pc = "systematic" /\ diversifier.present /\ num_samples = 2
    /\ expired_on_entry
    /\ diversifier.abstract_state_ids_by_sample = <<abstract_state_ids_for_init>>


(* C14: when the partial order just processed by the systematic loop has no
   repeated index (its indices are abstraction indices), the order handed to
   cp_function holds every abstraction index exactly once and begins with
   the partial order, for every outcome of the shuffle. *)
C14_CompletedOrderIsPermutation ==
    (cp_call.site = "systematic" /\ sys_index >= 1) =>
        LET sys_order == systematic_generator_orders_hacked[sys_index] IN
        (/\ \A i, j \in 1 .. Len(sys_order) : sys_order[i] = sys_order[j] => i = j
         /\ \A i \in 1 .. Len(sys_order) : sys_order[i] \in AbsIds)
        => /\ Len(order) = NumAbs
           /\ \A a \in AbsIds : Cardinality({i \in 1 .. Len(order) : order[i] = a}) = 1
           /\ Len(sys_order) <= Len(order)
           /\ SubSeq(order, 1, Len(sys_order)) = sys_order

(* C14 witness: the partial order <<1>> was completed to <<1, 0>>. *)
C14_Witness ==
    /\ cp_call.site = "systematic" /\ sys_index >= 1
    /\ systematic_generator_orders_hacked[sys_index] = <<1>>
    /\ order = <<1, 0>>

(* C17: every direct call of cp_function, for the initial state, a
   systematic order or a sampled order, is handed a remaining-cost vector
   equal to costs, whatever earlier calls left of theirs; costs itself never
   changes. *)
C17_FullCostsForEveryCall ==
    /\ [](cp_call.site # "none" => cp_call.remaining_costs = costs)
    /\ [][costs' = costs]_vars

(* C17 witness: a call for a sampled order follows a systematic call, with
   non-zero costs, and the vector handed to it came back reduced. *)
C17_Witness ==
    /\ cp_call.site = "sampling" /\ sys_index >= 1
    /\ \E o \in 1 .. NumOperators : costs[o] > 0 /\ remaining_costs[o] < costs[o]

====
